---- MODULE Spec2Model ----
(***************************************************************************)
(* Model of the jQuery plugin $.fn.tableSearch (src/src/tablesearch.js).   *)
(*                                                                         *)
(* Strings are sequences of one-character strings.  A table is a sequence  *)
(* of rows; a row records whether the row selector selects it and holds a  *)
(* sequence of cells; a cell records whether the column selector selects   *)
(* it and holds its inner HTML.  Each call of searchFor or reset is one    *)
(* step: the plugin is synchronous.  An exception leaves the state as it   *)
(* was at the throw and is recorded in `error`.                            *)
(***************************************************************************)
EXTENDS Integers, Sequences, FiniteSets, TLC

(* ----------------------------- bounds ---------------------------------- *)

\* most rows of a table
MaxRows == 2
\* most calls of searchFor / reset in one behaviour
MaxCalls == 3
\* most callback options that differ from the default configuration
MaxToggled == 2

(* ----------------------------- strings --------------------------------- *)

\* String.prototype.toLowerCase on one character of the modelled alphabet
LowerChar(c) ==
    CASE c = "A" -> "a"
      [] c = "B" -> "b"
      [] c = "M" -> "m"
      [] OTHER -> c

\* String.prototype.toLowerCase
ToLowerCase(s) == [i \in 1..Len(s) |-> LowerChar(s[i])]

IsSpace(c) == c = " "

RECURSIVE TrimLeft(_)
TrimLeft(s) ==
    IF s # <<>> /\ IsSpace(Head(s)) THEN TrimLeft(Tail(s)) ELSE s

RECURSIVE TrimRight(_)
TrimRight(s) ==
    IF s # <<>> /\ IsSpace(s[Len(s)]) THEN TrimRight(SubSeq(s, 1, Len(s) - 1)) ELSE s

\* a plausible slip: the query is used as typed, untrimmed
TrimNone(s) == s

\* $.trim
Trim(s) == TrimRight(TrimLeft(s))

\* String.prototype.indexOf, 0-based, -1 when absent
IndexOf(s, q) ==
    LET hits == {i \in 1..(Len(s) - Len(q) + 1) : SubSeq(s, i, i + Len(q) - 1) = q}
    IN  IF hits = {} THEN -1
        ELSE (CHOOSE i \in hits : \A j \in hits : i <= j) - 1

\* the text content of an HTML fragment: everything outside <...> tags
RECURSIVE TextOf(_, _)
TextOf(h, inTag) ==
    IF h = <<>> THEN <<>>
    ELSE IF inTag THEN TextOf(Tail(h), Head(h) # ">")
    ELSE IF Head(h) = "<" THEN TextOf(Tail(h), TRUE)
    ELSE <<Head(h)>> \o TextOf(Tail(h), FALSE)

(* --------------------------- highlightText ----------------------------- *)

MarkOpen == <<"<", "m", "a", "r", "k", ">">>
MarkClose == <<"<", "/", "m", "a", "r", "k", ">">>

StartsWithCI(s, p) ==
    /\ Len(s) >= Len(p)
    /\ ToLowerCase(SubSeq(s, 1, Len(p))) = p

\* html.replace(/<\/?mark>/gi, "")
RECURSIVE StripMarks(_)
StripMarks(h) ==
    IF h = <<>> THEN <<>>
    ELSE IF StartsWithCI(h, MarkOpen) THEN StripMarks(SubSeq(h, Len(MarkOpen) + 1, Len(h)))
    ELSE IF StartsWithCI(h, MarkClose) THEN StripMarks(SubSeq(h, Len(MarkClose) + 1, Len(h)))
    ELSE <<Head(h)>> \o StripMarks(Tail(h))

\* [^"<>]
InRun(c) == c \notin {"\"", "<", ">"}

\* new RegExp(... + text + ...) throws SyntaxError when the query leaves a
\* group open: within the modelled alphabet, when it contains "(" or ends
\* with a backslash
PatternCompiles(text) ==
    /\ \A i \in 1..Len(text) : text[i] # "("
    /\ (text = <<>> \/ text[Len(text)] # "\\")

\* one pattern character of the query against one character of the HTML,
\* flag i: "." matches any character, everything else itself, ignoring case
AtomMatches(a, c) == a = "." \/ LowerChar(a) = LowerChar(c)

\* the query, embedded as group 3, matches h at 1-based position t
TextMatchesAt(h, text, t) ==
    /\ t + Len(text) - 1 <= Len(h)
    /\ \A j \in 1..Len(text) : AtomMatches(text[j], h[t + j - 1])

\* the end (exclusive) of the longest run of [^"<>] that starts at position t
RECURSIVE RunEnd(_, _)
RunEnd(h, t) ==
    IF t <= Len(h) /\ InRun(h[t]) THEN RunEnd(h, t + 1) ELSE t

\* ([^"<>]*)(<|$) from position t: the end (exclusive) of the run, which
\* "<" or the end of the input must follow; 0 when neither does
TailEnd(h, e) == IF e = Len(h) + 1 \/ h[e] = "<" THEN e ELSE 0

\* the candidate with the longest group 2, as <<start of group 3, end of
\* group 4 (exclusive)>>, or <<0, 0>> when there is none
Greediest(h, text, ks) ==
    IF ks = {} THEN <<0, 0>>
    ELSE <<CHOOSE t \in ks : \A u \in ks : u <= t,
           RunEnd(h, (CHOOSE t \in ks : \A u \in ks : u <= t) + Len(text))>>

\* Groups 2..5 of the pattern from position s (just after group 1):
\* the greedy ([^"<>]*) gives back one character at a time until
\* (text)([^"<>]*)(<|$) matches
RestMatch(h, text, s) ==
    Greediest(h, text,
              {t \in s..RunEnd(h, s) :
                  /\ TextMatchesAt(h, text, t)
                  /\ TailEnd(h, RunEnd(h, t + Len(text))) # 0})

\* the first alternative that matches
FirstMatch(a, b) == IF a # <<0, 0>> THEN a ELSE b

\* the match of the whole pattern that starts at position p, if any:
\* group 1 is ^ (only at p = 1) or the character ">"
MatchAt(h, text, p) ==
    FirstMatch(IF p = 1 THEN RestMatch(h, text, 1) ELSE <<0, 0>>,
               IF p <= Len(h) /\ h[p] = ">" THEN RestMatch(h, text, p + 1)
               ELSE <<0, 0>>)

\* the position of the last character of a match that ends (exclusive) at e
LastOf(h, e) == IF e <= Len(h) THEN e ELSE Len(h)

RECURSIVE ReplaceAllFrom(_, _, _)

\* a plausible slip: the query, not the matched text, is put between the tags
RewriteWithQuery(h, text, p, m) ==
    IF m = <<0, 0>>
    THEN <<h[p]>> \o ReplaceAllFrom(h, text, p + 1)
    ELSE SubSeq(h, p, m[1] - 1) \o MarkOpen \o text \o MarkClose
            \o SubSeq(h, m[1] + Len(text), LastOf(h, m[2]))
            \o ReplaceAllFrom(h, text, LastOf(h, m[2]) + 1)

\* '$1$2<mark>$3</mark>$4$5' for the match m found at position p (group 3
\* starts at m[1], group 4 ends before m[2]), or one character copied
Rewrite(h, text, p, m) ==
    IF m = <<0, 0>>
    THEN <<h[p]>> \o ReplaceAllFrom(h, text, p + 1)
    ELSE SubSeq(h, p, m[1] - 1) \o MarkOpen
            \o SubSeq(h, m[1], m[1] + Len(text) - 1) \o MarkClose
            \o SubSeq(h, m[1] + Len(text), LastOf(h, m[2]))
            \o ReplaceAllFrom(h, text, LastOf(h, m[2]) + 1)

\* String.prototype.replace with the g flag: the leftmost match from
\* position p on is rewritten, the scan goes on after the end of the match
\* (which includes the "<" of group 5)
ReplaceAllFrom(h, text, p) ==
    IF p > Len(h) THEN <<>>
    ELSE Rewrite(h, text, p, MatchAt(h, text, p))

\* highlightText(element, text): the element's new HTML, or the exception
HighlightText(html, text) ==
    IF text = <<>> THEN [error |-> "none", html |-> StripMarks(html)]
    ELSE IF ~PatternCompiles(text) THEN [error |-> "SyntaxError", html |-> html]
    ELSE [error |-> "none", html |-> ReplaceAllFrom(StripMarks(html), text, 1)]

(* ------------------------------ inputs --------------------------------- *)

Cell(srch, html) == [searchable |-> srch, html |-> html]
Row(sel, cells) == [selected |-> sel, cells |-> cells]

\* the rows tables are built from
RowPool == <<
    \* "Ab" | "a": the text "Aba" holds "ba" across the cell boundary
    Row(TRUE, <<Cell(TRUE, <<"A", "b">>), Cell(TRUE, <<"a">>)>>),
    \* "aa": two occurrences of "a" in one text run
    Row(TRUE, <<Cell(TRUE, <<"a", "a">>)>>),
    \* "<mark>a</mark>b": the page's own <mark> element
    Row(TRUE, <<Cell(TRUE, MarkOpen \o <<"a">> \o MarkClose \o <<"b">>)>>),
    \* "b(" and "a.b": characters special to the pattern engine
    Row(TRUE, <<Cell(TRUE, <<"b", "(">>)>>),
    Row(TRUE, <<Cell(TRUE, <<"a", ".", "b">>)>>),
    \* a selected row without searchable cells
    Row(TRUE, <<Cell(FALSE, <<"a">>)>>),
    \* a row the row selector does not select
    Row(FALSE, <<Cell(TRUE, <<"a", "b">>)>>),
    \* "b<i>a</i>" | (not searchable) "a" | "B"
    Row(TRUE, <<Cell(TRUE, <<"b", "<", "i", ">", "a", "<", "/", "i", ">">>),
                Cell(FALSE, <<"a">>), Cell(TRUE, <<"B">>)>>),
    \* "(" | "a": a pattern-special character in the first of two cells
    Row(TRUE, <<Cell(TRUE, <<"(">>), Cell(TRUE, <<"a">>)>>)
>>

\* the rows the tables of a configured plugin are built from: two cells,
\* "b(", no searchable cell, not selected
ConfigRowPool == <<RowPool[1], RowPool[4], RowPool[6], RowPool[7]>>

RECURSIVE SeqOfSet(_, _)
SeqOfSet(pool, S) ==
    IF S = {} THEN <<>>
    ELSE LET m == CHOOSE i \in S : \A j \in S : i <= j
         IN  <<pool[m]>> \o SeqOfSet(pool, S \ {m})

\* the tables: at most MaxRows rows of the pool, in the pool's order
Tables(pool) ==
    {SeqOfSet(pool, S) : S \in {T \in SUBSET (1..Len(pool)) : Cardinality(T) <= MaxRows}}

\* the queries typed by the user
Queries == {
    <<>>, <<" ">>, <<"a">>, <<"b">>, <<" ", "A", " ">>, <<"b", "a">>, <<"a", "b">>,
    <<"(">>, <<".">> }

\* the queries typed by the user of a configured plugin
ConfigQueries == {<<>>, <<"a">>, <<"b">>, <<"(">>}

Callbacks == {"onMatchCell", "resetCell", "onMatchRow", "onNoMatchRow",
              "resetMatchRow", "resetNoMatchRow", "onStart", "onCompleted",
              "resetTable"}

\* config (lines 40-154): TRUE where the option is a function.  A function
\* given for onNoMatchRow or resetNoMatchRow changes nothing in the page.
DefaultConfig == [k \in Callbacks |-> k \notin {"onNoMatchRow", "resetNoMatchRow"}]

\* $.extend(config, options): options that set at most MaxToggled callbacks
\* to null, or onNoMatchRow / resetNoMatchRow to a function
Configs ==
    {c \in [Callbacks -> BOOLEAN] :
        Cardinality({k \in Callbacks : c[k] # DefaultConfig[k]}) <= MaxToggled}

(* ------------------------------- state --------------------------------- *)

VARIABLES
    config,       \* which callback options are functions
    dom0,         \* the table as the page delivered it
    dom,          \* the table now
    rowClass,     \* the rows that carry rowMatchClass
    tableClass,   \* the classes of the table among searching / results
    matchCells,   \* tracking list: cells, as <<row, cell>>
    matchRows,    \* tracking list: rows
    noMatchRows,  \* tracking list: rows
    log,          \* the callback invocations of the last call, in order
    error,        \* the exception the last call ended with, or "none"
    lastOp,       \* the last call and its argument
    prevOp,       \* the name of the call before it
    thrown,       \* some call so far ended with an exception
    calls         \* the number of calls so far

vars == <<config, dom0, dom, rowClass, tableClass, matchCells, matchRows,
          noMatchRows, log, error, lastOp, prevOp, thrown, calls>>

\* the mutable part of the state, as the handlers thread it along
Cur == [dom |-> dom, rowClass |-> rowClass, tableClass |-> tableClass,
        matchCells |-> matchCells, matchRows |-> matchRows,
        noMatchRows |-> noMatchRows, log |-> <<>>, error |-> "none"]

Logged(st, cb, r, c, q) ==
    [st EXCEPT !.log = Append(@, [cb |-> cb, row |-> r, cell |-> c, q |-> q])]

(* ------------------------ the default callbacks ------------------------ *)

\* element.html(newHtml), or the exception highlightText ended with
SetHtml(st, r, c, res) ==
    [st EXCEPT !.dom[r].cells[c].html = res.html, !.error = res.error]

\* onMatchCell: function (cell, query) { highlightText(cell, query); }
OnMatchCell(st, r, c, q) == SetHtml(st, r, c, HighlightText(st.dom[r].cells[c].html, q))

\* resetCell: function (cell) { highlightText(cell, ''); }
ResetCell(st, r, c) == SetHtml(st, r, c, HighlightText(st.dom[r].cells[c].html, <<>>))

\* onMatchRow: function (row) { row.addClass(rowMatchClass); }
OnMatchRow(st, r) == [st EXCEPT !.rowClass = @ \cup {r}]

\* resetMatchRow: function (row) { row.removeClass(rowMatchClass); }
ResetMatchRow(st, r) == [st EXCEPT !.rowClass = @ \ {r}]

\* onStart: function (table) { table.addClass(searchingClass); }
OnStart(st) == [st EXCEPT !.tableClass = @ \cup {"searching"}]

\* onCompleted: table.removeClass(searchingClass).addClass(searchResultsClass)
OnCompleted(st) == [st EXCEPT !.tableClass = (@ \ {"searching"}) \cup {"results"}]

\* resetTable: function (table) { table.removeClass(searchResultsClass); }
ResetTable(st) == [st EXCEPT !.tableClass = @ \ {"results"}]

\* func($(e)): the call of a configured reset callback on an element e of
\* its tracking list
CallReset(func, st, e) ==
    CASE func = "resetCell" -> ResetCell(Logged(st, func, e[1], e[2], <<>>), e[1], e[2])
      [] func = "resetMatchRow" -> ResetMatchRow(Logged(st, func, e, 0, <<>>), e)
      [] func = "resetNoMatchRow" -> Logged(st, func, e, 0, <<>>)

(* ------------------------------- reset --------------------------------- *)

\* arr.pop()
Pop(st, arr) == [st EXCEPT ![arr] = SubSeq(@, 1, Len(@) - 1)]

\* arr.push(e)
Push(st, arr, e) == [st EXCEPT ![arr] = Append(@, e)]

\* while (arr.length > 0) { func($(arr.pop())); }
RECURSIVE DrainList(_, _, _)
DrainList(func, arr, st) ==
    IF st[arr] = <<>> \/ st.error # "none" THEN st
    ELSE DrainList(func, arr, CallReset(func, Pop(st, arr), st[arr][Len(st[arr])]))

\* a plausible slip: the list is walked from its end but not emptied
doResetKeep(func, arr, st) ==
    IF st.error # "none" THEN st
    ELSE IF config[func] THEN [DrainList(func, arr, st) EXCEPT ![arr] = st[arr]]
    ELSE st

\* doReset(func, arr): the trailing `arr = []` rebinds the parameter only
doReset(func, arr, st) ==
    IF st.error # "none" THEN st
    ELSE IF config[func] THEN DrainList(func, arr, st)
    ELSE st

\* config.resetTable(self), called without a typeof check
CallResetTable(st) ==
    IF st.error # "none" THEN st
    ELSE IF config["resetTable"] THEN ResetTable(Logged(st, "resetTable", 0, 0, <<>>))
    ELSE [st EXCEPT !.error = "TypeError"]

\* a plausible slip: the rows are reset before the cells
resetRowsFirst(st) ==
    CallResetTable(
        doReset("resetCell", "matchCells",
            doReset("resetNoMatchRow", "noMatchRows",
                doReset("resetMatchRow", "matchRows", st))))

\* reset()
reset(st) ==
    CallResetTable(
        doReset("resetNoMatchRow", "noMatchRows",
            doReset("resetMatchRow", "matchRows",
                doReset("resetCell", "matchCells", st))))

(* ------------------------------ searchFor ------------------------------ *)

\* a plausible slip: every cell of the row, whatever the column selector
FindCellsAll(row) == [i \in 1..Len(row.cells) |-> i]

\* row.find(config.columnSelector): the searchable cells of row r, in order
FindCells(row) == SelectSeq([i \in 1..Len(row.cells) |-> i],
                            LAMBDA i : row.cells[i].searchable)

RECURSIVE CellsText(_, _)

\* a plausible slip: the cells' texts joined with a blank between them
CellsTextSpaced(row, cells) ==
    IF cells = <<>> THEN <<>>
    ELSE IF Len(cells) = 1 THEN TextOf(row.cells[Head(cells)].html, FALSE)
    ELSE TextOf(row.cells[Head(cells)].html, FALSE) \o <<" ">>
            \o CellsText(row, Tail(cells))

\* cells.text(): the text of the cells, concatenated without a separator
CellsText(row, cells) ==
    IF cells = <<>> THEN <<>>
    ELSE TextOf(row.cells[Head(cells)].html, FALSE) \o CellsText(row, Tail(cells))

\* a plausible slip: indexOf(q) >= -1
RowMatchesAlways(row, q) == IndexOf(ToLowerCase(CellsText(row, FindCells(row))), q) >= -1

\* cells.text().toLowerCase().indexOf(q) > -1
RowMatches(row, q) == IndexOf(ToLowerCase(CellsText(row, FindCells(row))), q) > -1

\* matchCells.push(cell); config.onMatchCell(cell, q);
MatchCell(r, c, q, st) ==
    OnMatchCell(Logged(Push(st, "matchCells", <<r, c>>), "onMatchCell", r, c, q), r, c, q)

\* cells.each(function () { ... })
RECURSIVE EachCell(_, _, _, _)
EachCell(r, cells, q, st) ==
    IF cells = <<>> \/ st.error # "none" THEN st
    ELSE EachCell(r, Tail(cells), q, MatchCell(r, Head(cells), q, st))

\* if (typeof config.onMatchCell === 'function') { cells.each(...) }
MatchCells(r, q, st) ==
    IF config["onMatchCell"] THEN EachCell(r, FindCells(st.dom[r]), q, st) ELSE st

\* if (typeof config.onMatchRow === 'function') { matchRows.push(row); ... }
MatchRow(r, st) ==
    IF st.error # "none" THEN st
    ELSE IF config["onMatchRow"]
    THEN OnMatchRow(Logged(Push(st, "matchRows", r), "onMatchRow", r, 0, <<>>), r)
    ELSE st

\* a plausible slip: the row is recorded outside the typeof guard
NoMatchRowAlways(r, st) ==
    IF config["onNoMatchRow"]
    THEN Logged(Push(st, "noMatchRows", r), "onNoMatchRow", r, 0, <<>>)
    ELSE Push(st, "noMatchRows", r)

\* if (typeof config.onNoMatchRow === 'function') { noMatchRows.push(row); ... }
NoMatchRow(r, st) ==
    IF config["onNoMatchRow"]
    THEN Logged(Push(st, "noMatchRows", r), "onNoMatchRow", r, 0, <<>>)
    ELSE st

\* the body of self.find(config.rowSelector).each(...) for row r
VisitRow(r, q, st) ==
    IF RowMatches(st.dom[r], q) THEN MatchRow(r, MatchCells(r, q, st))
    ELSE NoMatchRow(r, st)

\* self.find(config.rowSelector).each(...): the selected rows from r on
RECURSIVE EachRow(_, _, _)
EachRow(r, q, st) ==
    IF r > Len(st.dom) \/ st.error # "none" THEN st
    ELSE IF st.dom[r].selected THEN EachRow(r + 1, q, VisitRow(r, q, st))
    ELSE EachRow(r + 1, q, st)

\* var q = $.trim(query).toLowerCase()
Normalize(query) == ToLowerCase(Trim(query))

\* if (typeof config.onStart === 'function') { config.onStart(self); }
Started(st) ==
    IF config["onStart"] THEN OnStart(Logged(st, "onStart", 0, 0, <<>>)) ELSE st

\* if (typeof config.onCompleted === 'function') { config.onCompleted(self); }
Completed(st) ==
    IF st.error # "none" THEN st
    ELSE IF config["onCompleted"] THEN OnCompleted(Logged(st, "onCompleted", 0, 0, <<>>))
    ELSE st

\* searchFor after reset(): st is the state reset() left, q the normalized query
Search(q, st) ==
    IF st.error # "none" \/ q = <<>> THEN st
    ELSE Completed(EachRow(1, q, Started(st)))

\* searchFor(query)
searchFor(query, st) == Search(Normalize(query), reset(st))

(* ------------------------------ behaviour ------------------------------ *)

InitWith(cfgs, tables) ==
    /\ config \in cfgs
    /\ dom0 \in tables
    /\ dom = dom0
    /\ rowClass = {}
    /\ tableClass = {}
    /\ matchCells = <<>>
    /\ matchRows = <<>>
    /\ noMatchRows = <<>>
    /\ log = <<>>
    /\ error = "none"
    /\ lastOp = [op |-> "none", q |-> <<>>]
    /\ prevOp = "none"
    /\ thrown = FALSE
    /\ calls = 0

\* the plugin constructed with no callback options
Init == InitWith({DefaultConfig}, Tables(RowPool))

\* the plugin constructed with callback options
InitConfig == InitWith(Configs, Tables(ConfigRowPool))

Returned(st, op, q) ==
    /\ dom' = st.dom
    /\ rowClass' = st.rowClass
    /\ tableClass' = st.tableClass
    /\ matchCells' = st.matchCells
    /\ matchRows' = st.matchRows
    /\ noMatchRows' = st.noMatchRows
    /\ log' = st.log
    /\ error' = st.error
    /\ lastOp' = [op |-> op, q |-> q]
    /\ prevOp' = lastOp.op
    /\ thrown' = (thrown \/ st.error # "none")
    /\ calls' = calls + 1
    /\ UNCHANGED <<config, dom0>>

\* the page calls reset()
Reset ==
    /\ calls < MaxCalls
    /\ Returned(reset(Cur), "reset", <<>>)

\* the page calls searchFor(query)
SearchFor(queries) ==
    /\ calls < MaxCalls
    /\ \E query \in queries : Returned(searchFor(query, Cur), "searchFor", query)

Next == Reset \/ SearchFor(Queries)

NextConfig == Reset \/ SearchFor(ConfigQueries)

Spec == Init /\ [][Next]_vars

SpecConfig == InitConfig /\ [][NextConfig]_vars

(* ------------------------------- claims -------------------------------- *)

Range(s) == {s[i] : i \in DOMAIN s}

SelectedRows == {r \in 1..Len(dom) : dom[r].selected}

SearchableCells(row) == {c \in 1..Len(row.cells) : row.cells[c].searchable}

\* q occurs in s as a substring
Contains(s, q) == \E i \in 0..(Len(s) - Len(q)) : SubSeq(s, i + 1, i + Len(q)) = q

\* the query is empty or consists only of whitespace
IsBlank(query) == \A i \in 1..Len(query) : query[i] = " "

\* the text of the searchable cells of a row of the page as delivered
RECURSIVE SearchableText(_, _)
SearchableText(row, c) ==
    IF c > Len(row.cells) THEN <<>>
    ELSE (IF row.cells[c].searchable THEN TextOf(row.cells[c].html, FALSE) ELSE <<>>)
            \o SearchableText(row, c + 1)

\* the last call was searchFor with a query that is not blank, and it returned
SearchReturned ==
    /\ lastOp.op = "searchFor"
    /\ ~IsBlank(lastOp.q)
    /\ error = "none"

\* the last call was reset(), or searchFor with a blank query
ResetLike == lastOp.op = "reset" \/ (lastOp.op = "searchFor" /\ IsBlank(lastOp.q))

\* C1: after searchFor(Q) with a non-blank Q returns, a selected row is in
\* matchRows, and carries the row-match class, exactly when the lower-cased
\* concatenation of the text of its searchable cells contains the trimmed,
\* lower-cased Q, matches across a cell boundary included.
MatchedRowsIffContains ==
    SearchReturned =>
        \A r \in SelectedRows :
            LET hit == Contains(ToLowerCase(SearchableText(dom0[r], 1)),
                                ToLowerCase(Trim(lastOp.q)))
            IN  /\ (r \in Range(matchRows)) <=> hit
                /\ (r \in rowClass) <=> hit

\* a returned search matched a row none of whose cells holds the query alone
MatchAcrossCells ==
    /\ SearchReturned
    /\ \E r \in Range(matchRows) :
            /\ r \in rowClass
            /\ \A c \in SearchableCells(dom0[r]) :
                    ~Contains(ToLowerCase(TextOf(dom0[r].cells[c].html, FALSE)),
                              ToLowerCase(Trim(lastOp.q)))

\* C2: with the default callbacks, after any searches a reset() (or a blank
\* searchFor) leaves every cell's HTML as the page delivered it, no row with
\* the row-match class and the table without the results and searching
\* classes, also when the page's own HTML holds <mark> elements.  Stated for
\* the behaviours in which no call has ended with an exception.
ResetRestoresPage ==
    (calls > 0 /\ ResetLike /\ ~thrown) =>
        /\ dom = dom0
        /\ rowClass = {}
        /\ tableClass = {}

IsResetCallback(cb) ==
    cb \in {"resetCell", "resetMatchRow", "resetNoMatchRow", "resetTable"}

PatternSpecial == {"(", ")", "[", "]", "{", "}", ".", "*", "+", "?", "^", "$", "|", "\\"}

PlainQuery(query) == \A i \in 1..Len(query) : query[i] \notin PatternSpecial

\* h with every non-overlapping occurrence of q, ignoring case, in its text
\* runs wrapped in <mark>...</mark>, scanning from the left; tags are copied
RECURSIVE WrapEvery(_, _, _)
WrapEvery(h, q, inTag) ==
    IF h = <<>> THEN <<>>
    ELSE IF inTag THEN <<Head(h)>> \o WrapEvery(Tail(h), q, Head(h) # ">")
    ELSE IF Head(h) = "<" THEN <<"<">> \o WrapEvery(Tail(h), q, TRUE)
    ELSE IF Len(h) >= Len(q) /\ ToLowerCase(SubSeq(h, 1, Len(q))) = q
    THEN MarkOpen \o SubSeq(h, 1, Len(q)) \o MarkClose
            \o WrapEvery(SubSeq(h, Len(q) + 1, Len(h)), q, FALSE)
    ELSE <<Head(h)>> \o WrapEvery(Tail(h), q, FALSE)

\* C4: the default onMatchCell, for a query without pattern-special
\* characters, wraps every non-overlapping case-insensitive occurrence of
\* the query in each text run of the cell's HTML in <mark>...</mark>, two or
\* more occurrences in one run included, wraps nothing inside a tag and
\* keeps the letter case of the wrapped text.
HighlightWrapsEveryOccurrence ==
    (SearchReturned /\ PlainQuery(lastOp.q)) =>
        \A r \in Range(matchRows) : \A c \in SearchableCells(dom[r]) :
            dom[r].cells[c].html
              = WrapEvery(StripMarks(dom0[r].cells[c].html),
                          ToLowerCase(Trim(lastOp.q)), FALSE)

\* <mark> opens at position i of h
MarkOpensAt(h, i) == StartsWithCI(SubSeq(h, i, Len(h)), MarkOpen)

MarkClosesAt(h, i) == StartsWithCI(SubSeq(h, i, Len(h)), MarkClose)

HasMarks(h) == \E i \in 1..Len(h) : MarkOpensAt(h, i) \/ MarkClosesAt(h, i)

\* every <mark> of h is followed by an occurrence of q and then by </mark>,
\* and every </mark> closes such an element
MarksWrap(h, q) ==
    /\ \A i \in 1..Len(h) : MarkOpensAt(h, i) =>
          /\ ToLowerCase(SubSeq(h, i + Len(MarkOpen), i + Len(MarkOpen) + Len(q) - 1)) = q
          /\ MarkClosesAt(h, i + Len(MarkOpen) + Len(q))
    /\ \A i \in 1..Len(h) : MarkClosesAt(h, i) =>
          /\ i > Len(MarkOpen) + Len(q)
          /\ MarkOpensAt(h, i - Len(q) - Len(MarkOpen))

PageHasMarks ==
    \E r \in 1..Len(dom0) : \E c \in 1..Len(dom0[r].cells) : HasMarks(dom0[r].cells[c].html)

\* C5: with the default callbacks, after any searches ending with a returned
\* searchFor(Q2), Q2 not blank, every <mark> element of every cell wraps
\* exactly an occurrence of the trimmed lower-cased Q2, markers are not
\* nested or stacked, and the cells of rows that do not match Q2 hold no
\* marker.  Stated for pages that deliver no <mark> element of their own.
MarksWrapCurrentQuery ==
    (SearchReturned /\ ~PageHasMarks) =>
        \A r \in 1..Len(dom) : \A c \in 1..Len(dom[r].cells) :
            /\ MarksWrap(dom[r].cells[c].html, ToLowerCase(Trim(lastOp.q)))
            /\ r \notin Range(matchRows) => ~HasMarks(dom[r].cells[c].html)

AllListsEmpty == matchCells = <<>> /\ matchRows = <<>> /\ noMatchRows = <<>>

\* C6: for every configuration, also one where resetCell, resetMatchRow or
\* resetNoMatchRow is not callable while onMatchCell, onMatchRow or
\* onNoMatchRow is, the three tracking lists are empty when reset() returns.
ListsEmptyAfterReset ==
    (lastOp.op = "reset" /\ error = "none") => AllListsEmpty

\* C7: a callback option configured as a non-callable value is disabled:
\* searchFor and reset raise no error and never invoke it.
DisabledCallbackIsSkipped ==
    /\ error # "TypeError"
    /\ \A i \in DOMAIN log : config[log[i].cb]

\* C8: reset() is idempotent: a reset() that follows a reset() leaves the
\* cells' HTML, the row classes, the table classes and the tracking lists as
\* they are and invokes no cell-reset or row-reset callback.
ResetTwiceIsResetOnce ==
    [][(calls' = calls + 1 /\ lastOp.op = "reset" /\ lastOp'.op = "reset") =>
        /\ UNCHANGED <<dom, rowClass, tableClass, matchCells, matchRows, noMatchRows>>
        /\ \A i \in DOMAIN log' :
              log'[i].cb \notin {"resetCell", "resetMatchRow", "resetNoMatchRow"}]_vars

\* two resets in a row after a search whose matched row has been reset
ResetAfterResetAfterSearch ==
    /\ lastOp.op = "reset"
    /\ prevOp = "reset"
    /\ matchCells # <<>>
    /\ rowClass = {}

\* no selected row has a cell the column selector selects (no selected row
\* at all included)
NoSearchableCells == \A r \in SelectedRows : SearchableCells(dom[r]) = {}

Names(l) == [i \in DOMAIN l |-> l[i].cb]

IfCallable(cb) == IF config[cb] THEN <<cb>> ELSE <<>>

SearchRunsToCompletion ==
    (lastOp.op = "searchFor" /\ ~IsBlank(lastOp.q)) =>
        /\ error = "none"
        /\ log # <<>>
        /\ log[Len(log)].cb = "onCompleted"
\* row r of the page as delivered holds the trimmed lower-cased query in the
\* lower-cased text of its searchable cells
RowHit(r, query) ==
    Contains(ToLowerCase(SearchableText(dom0[r], 1)), ToLowerCase(Trim(query)))

\* the selected rows that hold the query (hit = TRUE), or that do not, in
\* document order
RowsInOrder(query, hit) ==
    SelectSeq([r \in 1..Len(dom0) |-> r],
              LAMBDA r : dom0[r].selected /\ (RowHit(r, query) <=> hit))

\* the step is a call of searchFor with a non-blank query that returns
SearchStep ==
    /\ calls' = calls + 1
    /\ lastOp'.op = "searchFor"
    /\ ~IsBlank(lastOp'.q)
    /\ error' = "none"

\* C11, as claimed: after searchFor(Q) with a non-blank Q returns, every
\* selected row is recorded in exactly one of the two row lists, matching
\* rows in matchRows and the others in noMatchRows, whether or not
\* onMatchRow / onNoMatchRow is configured.
RowsRecordedInOneList ==
    SearchReturned =>
        \A r \in SelectedRows :
            /\ (r \in Range(matchRows)) <=> RowHit(r, lastOp.q)
            /\ (r \in Range(noMatchRows)) <=> ~RowHit(r, lastOp.q)

\* what reset() leaves of a tracking list whose reset callback is func
LeftByReset(func, list) == IF config[func] THEN <<>> ELSE list

\* C11, amended: a returning searchFor(Q) with a non-blank Q appends to
\* matchRows the selected rows that match, in document order, when onMatchRow
\* is a function and nothing otherwise, and to noMatchRows the selected rows
\* that do not match when onNoMatchRow is a function and nothing otherwise.
RowsRecordedWhenConfigured ==
    [][SearchStep =>
        /\ matchRows' = LeftByReset("resetMatchRow", matchRows)
              \o (IF config["onMatchRow"] THEN RowsInOrder(lastOp'.q, TRUE) ELSE <<>>)
        /\ noMatchRows' = LeftByReset("resetNoMatchRow", noMatchRows)
              \o (IF config["onNoMatchRow"] THEN RowsInOrder(lastOp'.q, FALSE) ELSE <<>>)]_vars

\* a returned search under the default options left a row that does not
\* match unrecorded, next to a recorded matching row
UnmatchedRowUnrecorded ==
    /\ SearchReturned
    /\ config = DefaultConfig
    /\ matchRows # <<>>
    /\ noMatchRows = <<>>
    /\ \E r \in SelectedRows : ~RowHit(r, lastOp.q)
IsMatchCallback(cb) == cb \in {"onMatchCell", "onMatchRow", "onNoMatchRow"}

\* the callback log l of one call is: reset callbacks ending with resetTable,
\* then onStart once, then match / no-match callbacks with the rows in
\* document order, then onCompleted once
OrderedSearchLog(l) ==
    \E s \in DOMAIN l :
        /\ l[s].cb = "onStart"
        /\ s > 1 /\ l[s - 1].cb = "resetTable"
        /\ \A i \in 1..(s - 1) : IsResetCallback(l[i].cb)
        /\ Len(l) > s /\ l[Len(l)].cb = "onCompleted"
        /\ \A i \in (s + 1)..(Len(l) - 1) : IsMatchCallback(l[i].cb)
        /\ \A i, j \in (s + 1)..(Len(l) - 1) : i < j => l[i].row <= l[j].row

\* C12: within one searchFor(Q) with a non-blank Q the reset callbacks of
\* the internal reset, ending with resetTable, come first, then onStart
\* exactly once, then the per-row and per-cell callbacks with the rows in
\* document order, then onCompleted exactly once; no reset callback follows
\* onStart and no match callback precedes onStart or follows onCompleted.
SearchCallbackOrder ==
    (lastOp.op = "searchFor" /\ ~IsBlank(lastOp.q)) => OrderedSearchLog(log)
Reversed(s) == [i \in 1..Len(s) |-> s[Len(s) - i + 1]]

\* the invocations of a reset callback over the elements of list, last first
CellResets(list) ==
    IF config["resetCell"]
    THEN [i \in 1..Len(list) |->
            [cb |-> "resetCell", row |-> Reversed(list)[i][1],
             cell |-> Reversed(list)[i][2], q |-> <<>>]]
    ELSE <<>>

RowResets(func, list) ==
    IF config[func]
    THEN [i \in 1..Len(list) |->
            [cb |-> func, row |-> Reversed(list)[i], cell |-> 0, q |-> <<>>]]
    ELSE <<>>

TableReset ==
    IF config["resetTable"]
    THEN <<[cb |-> "resetTable", row |-> 0, cell |-> 0, q |-> <<>>]>>
    ELSE <<>>

\* what reset() invokes from the lists as they stand
ResetInvocations ==
    CellResets(matchCells) \o RowResets("resetMatchRow", matchRows)
        \o RowResets("resetNoMatchRow", noMatchRows) \o TableReset

\* C13: reset(), called by the page or at the start of searchFor, invokes
\* its callbacks in a fixed order: resetCell on each recorded matched cell
\* in reverse order of recording, then resetMatchRow on each recorded
\* matched row in reverse order, then resetNoMatchRow on each recorded
\* non-matched row in reverse order, then resetTable once; each recorded
\* element is passed to its reset callback exactly once and no reset
\* callback is invoked besides these.
ResetCallbackOrder ==
    [][calls' = calls + 1 =>
        /\ Len(log') >= Len(ResetInvocations)
        /\ SubSeq(log', 1, Len(ResetInvocations)) = ResetInvocations
        /\ \A i \in (Len(ResetInvocations) + 1)..Len(log') :
              ~IsResetCallback(log'[i].cb)
        /\ lastOp'.op = "reset" => Len(log') = Len(ResetInvocations)]_vars

ResetOfCellsAndRows ==
    /\ lastOp.op = "reset"
    /\ Names(log) = <<"resetCell", "resetCell", "resetMatchRow",
                      "resetNoMatchRow", "resetTable">>
    /\ log[1].row = log[2].row
    /\ log[1].cell > log[2].cell
\* the onMatchCell invocations of the last call on cells of row r, in order
MatchCellCalls(r) == SelectSeq(log, LAMBDA e : e.cb = "onMatchCell" /\ e.row = r)

\* onMatchCell on every searchable cell of row r, in cell order, with the
\* trimmed lower-cased query
EveryCellOnce(r, query) ==
    [i \in 1..Len(FindCells(dom0[r])) |->
        [cb |-> "onMatchCell", row |-> r, cell |-> FindCells(dom0[r])[i],
         q |-> ToLowerCase(Trim(query))]]

\* C14: for each row that matches during searchFor(Q), onMatchCell is
\* invoked exactly once for every searchable cell of the row, in cell order,
\* also for cells that do not contain the query; each such cell is recorded
\* in the matched-cells list; the callback receives the trimmed lower-cased
\* query; all of the row's onMatchCell invocations precede the row's
\* onMatchRow invocation; for a non-matching row onMatchCell is never
\* invoked.
MatchCellPerSearchableCell ==
    (lastOp.op = "searchFor" /\ ~IsBlank(lastOp.q)) =>
        \A r \in SelectedRows :
            IF RowHit(r, lastOp.q)
            THEN /\ MatchCellCalls(r) = EveryCellOnce(r, lastOp.q)
                 /\ \A c \in Range(FindCells(dom0[r])) : <<r, c>> \in Range(matchCells)
                 /\ \A i, j \in DOMAIN log :
                       (log[i].cb = "onMatchRow" /\ log[i].row = r
                           /\ log[j].cb = "onMatchCell" /\ log[j].row = r) => j < i
            ELSE MatchCellCalls(r) = <<>>
\* row r is recorded in a tracking list or was passed to a callback of the
\* last call, itself or one of its cells
RowTouched(r) ==
    \/ r \in Range(matchRows) \cup Range(noMatchRows)
    \/ \E e \in Range(matchCells) : e[1] = r
    \/ \E e \in Range(log) : e.row = r

\* cell c of row r is recorded or was passed to a callback of the last call
CellTouched(r, c) ==
    \/ <<r, c>> \in Range(matchCells)
    \/ \E e \in Range(log) : e.row = r /\ e.cell = c

\* the last call treated row r as matching
TreatedAsMatch(r) ==
    \/ r \in Range(matchRows) \cup rowClass
    \/ \E e \in Range(matchCells) : e[1] = r
    \/ \E e \in Range(log) : e.row = r /\ e.cb \in {"onMatchCell", "onMatchRow"}

\* C15: rows the row selector does not select and cells the column selector
\* does not select are left alone by every searchFor and reset: they are
\* never passed to a callback, never recorded in a tracking list, their HTML
\* and classes never change, and their text has no part in the decision
\* whether a row matches (a row treated as matching holds the query in the
\* text of its searchable cells alone).
UnselectedLeftAlone ==
    \A r \in 1..Len(dom) :
        /\ ~dom0[r].selected =>
              /\ dom[r] = dom0[r]
              /\ r \notin rowClass
              /\ ~RowTouched(r)
        /\ \A c \in 1..Len(dom0[r].cells) :
              ~dom0[r].cells[c].searchable =>
                  /\ dom[r].cells[c] = dom0[r].cells[c]
                  /\ ~CellTouched(r, c)
        /\ (lastOp.op = "searchFor" /\ TreatedAsMatch(r)) => RowHit(r, lastOp.q)

\* a search that matched a row returned over a page with an unselected row
\* and a cell outside the column selector that both hold the query
SearchPastUnselected ==
    /\ SearchReturned
    /\ matchRows # <<>>
    /\ \E r \in 1..Len(dom0) :
          /\ ~dom0[r].selected
          /\ \E c \in 1..Len(dom0[r].cells) :
                Contains(ToLowerCase(TextOf(dom0[r].cells[c].html, FALSE)),
                         ToLowerCase(Trim(lastOp.q)))
    /\ \E r \in 1..Len(dom0) : \E c \in 1..Len(dom0[r].cells) :
          /\ dom0[r].selected
          /\ ~dom0[r].cells[c].searchable
          /\ Contains(ToLowerCase(TextOf(dom0[r].cells[c].html, FALSE)),
                      ToLowerCase(Trim(lastOp.q)))
\* the text content of a cell: its HTML without <mark> and </mark> tags
Unmarked(cell) == StripMarks(cell.html)

\* C16: with the default callbacks and queries free of pattern-special
\* characters the text content of every cell, its HTML with all <mark>
\* open and close tags removed, never changes: reset() and every searchFor
\* with such a query leave it as it was, so no sequence of them adds,
\* removes, reorders or changes the case of a character other than the tags.
TextContentPreserved ==
    [][(calls' = calls + 1 /\ PlainQuery(lastOp'.q)) =>
        \A r \in 1..Len(dom) : \A c \in 1..Len(dom[r].cells) :
            Unmarked(dom'[r].cells[c]) = Unmarked(dom[r].cells[c])]_vars

\* a second search with a plain query has marked text of another case
MarkedAcrossCase ==
    /\ SearchReturned
    /\ PlainQuery(lastOp.q)
    /\ prevOp = "searchFor"
    /\ \E r \in 1..Len(dom) : \E c \in 1..Len(dom[r].cells) :
          /\ HasMarks(dom[r].cells[c].html)
          /\ ~HasMarks(dom0[r].cells[c].html)
          /\ ToLowerCase(dom[r].cells[c].html) # dom[r].cells[c].html
          /\ Unmarked(dom[r].cells[c]) = dom0[r].cells[c].html
\* C17: with the default callbacks, after any sequence of searchFor and
\* reset calls ending with searchFor(Q), Q not blank, the rows carrying the
\* row-match class are exactly the selected rows that match Q: no row keeps
\* the class from an earlier search and every row that matched an earlier
\* query but not Q has lost it.
MatchClassOnCurrentMatches ==
    (lastOp.op = "searchFor" /\ ~IsBlank(lastOp.q)) =>
        rowClass = {r \in SelectedRows : RowHit(r, lastOp.q)}
\* C18: with the default callbacks, whenever a searchFor or reset call has
\* returned, the table does not carry the searching class and carries the
\* search-results class exactly when the most recent call was a searchFor
\* with a non-blank query; the searching class is present only between the
\* onStart and the onCompleted of one searchFor call.
TableClassesFollowLastCall ==
    /\ (calls > 0 /\ error = "none") =>
          /\ "searching" \notin tableClass
          /\ "results" \in tableClass <=>
                (lastOp.op = "searchFor" /\ ~IsBlank(lastOp.q))
    /\ "searching" \in tableClass =>
          /\ \E e \in Range(log) : e.cb = "onStart"
          /\ \A e \in Range(log) : e.cb # "onCompleted"
====
